---------------------------- MODULE Spec2Model ----------------------------
(***************************************************************************)
(* A model of dtgoitia/people: the log text parser and renderer and the    *)
(* reading of the log files (src/src/log.rs); the log merge, the           *)
(* per-person projection, the last interactions and the reminders          *)
(* (src/src/use_cases.rs); the writing of the per-person logs              *)
(* (src/src/bin/people_per_person.rs).                                     *)
(*                                                                         *)
(* A text is a sequence of characters.  A character is a one-character     *)
(* string; the ten characters of a calendar date "YYYY-MM-DD" are kept     *)
(* together as one character-like atom ("2000-01-01"), and a calendar date *)
(* is the number of its day (1 is 2000-01-01).                             *)
(***************************************************************************)
EXTENDS Integers, Sequences, FiniteSets, TLC

VARIABLES
    pc,              \* position of the running program
    content,         \* parse_log_file_content: the text being parsed
    tokens,          \* parse_log_file_content: tokenize(content)
    pos,             \* parse_log_file_content: index of the next token of the loop
    buffered_date,   \* parse_log_file_content: Option<Date>
    buffered_lines,  \* parse_log_file_content: Vec<Token>
    days,            \* parse_log_file_content / read_logs: Vec<Day>
    rendered,        \* format!("{log}") of the parsed Log
    reparsed,        \* parse_log_file_content(rendered)
    previous,        \* merge_logs: the Log merged into
    new,             \* merge_logs: the Log merged in
    third,           \* a Log merged after previous and new
    merged,          \* merge_logs(previous, new)
    identity,        \* merge_logs(previous, empty Log)
    left,            \* merge_logs(merge_logs(previous, new), third)
    right,           \* merge_logs(previous, merge_logs(new, third))
    files,           \* the directory log/: file name -> content
    paths,           \* read_logs: the files found, sorted
    path_idx,        \* read_logs: index of the next file of the loop
    read_days,       \* read_logs: Vec<Day>
    aggregate,       \* split_log_per_person / get_last_interactions: the Log
    should_ignore,   \* split_log_per_person: HashSet<PersonName>
    per_person,      \* split_log_per_person: HashMap<PersonName, Option<Log>>
    day_idx,         \* split_log_per_person: index of the Day of the loop
    entry_idx,       \* split_log_per_person: index of the Entry of the loop
    visited,         \* split_log_per_person: the persons of the Entry done
    interactions,    \* get_last_interactions: Vec<LastInteraction>
    to_be_reminded,  \* identify_reachouts: HashMap<PersonName, Duration>
    people_seen,     \* identify_reachouts: the persons of config.people done
    config_person,   \* identify_reachouts: the Person of config.people done last
    today,           \* assess_reminder: Local::now().naive_local().date()
    reachouts,       \* identify_reachouts: Result<Vec<LastInteraction>, String>
    per_person_dir,  \* the directory per-person-logs/: path -> file
    pending,         \* people_per_person: the persons the loop has still to take
    written          \* people_per_person: the LogWritten of each turn of the loop

parse_vars == <<content, tokens, pos, buffered_date, buffered_lines, days,
                rendered, reparsed>>
merge_vars == <<previous, new, third, merged, identity, left, right>>
read_vars == <<files, paths, path_idx, read_days>>
split_vars == <<aggregate, should_ignore, per_person, day_idx, entry_idx, visited>>
summary_vars == <<interactions, to_be_reminded, people_seen, config_person, today,
                  reachouts>>
write_vars == <<per_person_dir, pending, written>>
use_vars == <<split_vars, summary_vars, write_vars>>

vars == <<pc, parse_vars, merge_vars, read_vars, use_vars>>

-----------------------------------------------------------------------------
(* Bounds of the model. *)

\* the longest input text, in physical lines
MaxLines == 4
\* the longest canonical-form text, in lines of entries
MaxCanonLines == 3
\* the longest Log that is merged, in Days
MaxLogDays == 2
\* the calendar dates of the model are day 1 .. day MaxDate
MaxDate == 2
\* the longest aggregate Log that is split per person, in Days
MaxAggregateDays == 3
\* the longest list of people of the configuration
MaxPeople == 2

-----------------------------------------------------------------------------
(* Characters. *)

TAB == "\t"
TWO_SPACES == <<" ", " ">>
NL == "\n"

\* char::is_whitespace, on the characters of the model
Whitespace == {" ", "\t", "\n"}

\* the letters of the mention pattern [A-Za-zñáéíóúç], on the characters of the model
Letters == {"a", "b"}

Dates == 1..MaxDate

\* NaiveDate's Display (YYYY-MM-DD): the date text of a calendar date
DateText(d) ==
    CASE d = 1 -> "2000-01-01"
      [] d = 2 -> "2000-01-02"
      [] d = 3 -> "2000-01-03"
      [] OTHER -> "2000-01-04"

DateTexts == {DateText(d) : d \in Dates}

\* NaiveDate::parse_from_str(.., "%Y-%m-%d") on one date text
DateOfText(t) == CHOOSE d \in Dates : DateText(d) = t

-----------------------------------------------------------------------------
(* Strings: str::split, str::replace, [String]::join, str::lines. *)

RECURSIVE split(_, _)
split(s, sep) ==
    IF \E i \in 1..Len(s) : s[i] = sep
    THEN LET i == CHOOSE k \in 1..Len(s) :
                      s[k] = sep /\ \A j \in 1..(k - 1) : s[j] # sep
         IN <<SubSeq(s, 1, i - 1)>> \o split(SubSeq(s, i + 1, Len(s)), sep)
    ELSE <<s>>

RECURSIVE join(_, _)
join(parts, sep) ==
    IF Len(parts) = 0 THEN <<>>
    ELSE IF Len(parts) = 1 THEN parts[1]
    ELSE parts[1] \o sep \o join(Tail(parts), sep)

RECURSIVE replace(_, _, _)
replace(s, from, to) ==
    IF s = <<>> THEN <<>>
    ELSE (IF Head(s) = from THEN to ELSE <<Head(s)>>) \o replace(Tail(s), from, to)

\* str::lines: the pieces between newlines, a final empty piece dropped
lines(s) ==
    LET p == split(s, NL)
    IN IF p[Len(p)] = <<>> THEN SubSeq(p, 1, Len(p) - 1) ELSE p

\* str::trim_end
RECURSIVE trim_end(_)
trim_end(s) ==
    IF s # <<>> /\ s[Len(s)] \in Whitespace
    THEN trim_end(SubSeq(s, 1, Len(s) - 1))
    ELSE s

-----------------------------------------------------------------------------
(* The tokenizer and the line classifier (src/src/log.rs). *)

\* the number of whitespace characters before the first other character
RECURSIVE leading_whitespace(_)
leading_whitespace(s) ==
    IF s # <<>> /\ Head(s) \in Whitespace
    THEN 1 + leading_whitespace(Tail(s))
    ELSE 0

any_non_whitespace(s) == \E i \in 1..Len(s) : s[i] \notin Whitespace

\* find(first non-whitespace character).map(index).unwrap_or(0)
find_first_non_space(input) ==
    IF any_non_whitespace(input) THEN leading_whitespace(input) ELSE 0

tokenize_line(line, line_number) ==
    LET line_no_tabs == replace(line, TAB, TWO_SPACES)
        indentation == find_first_non_space(line_no_tabs)
    IN [line_number |-> line_number,
        indentation |-> indentation,
        content |-> SubSeq(line_no_tabs, indentation + 1, Len(line_no_tabs))]

\* line numbers are 0-based, as enumerate() gives them
tokenize(text) ==
    LET ls == split(text, NL)
    IN [i \in 1..Len(ls) |-> tokenize_line(ls[i], i - 1)]

token_is_empty_line(token) ==
    token.indentation = 0 /\ token.content = <<>>

NoDate == [some |-> FALSE, line_number |-> 0, value |-> 0]
SomeDate(line_number, value) ==
    [some |-> TRUE, line_number |-> line_number, value |-> value]

\* Token::try_into_date: Ok is SomeDate, Err is NoDate.  chrono's numeric items
\* skip whitespace before the number; trim_end removes it after the date.
try_into_date(token) ==
    IF token.indentation # 0 THEN NoDate
    ELSE IF ~(Len(token.content) >= 2 /\ token.content[1] = "#" /\ token.content[2] = " ")
    THEN NoDate
    ELSE LET date_str == trim_end(SubSeq(token.content, 3, Len(token.content)))
             digits == SubSeq(date_str, leading_whitespace(date_str) + 1, Len(date_str))
         IN IF Len(digits) = 1 /\ digits[1] \in DateTexts
            THEN SomeDate(token.line_number, DateOfText(digits[1]))
            ELSE NoDate

\* Into<Line> for Token
into_line(token) ==
    IF token_is_empty_line(token) THEN [kind |-> "Empty"]
    ELSE IF try_into_date(token).some
    THEN [kind |-> "Date", date |-> try_into_date(token)]
    ELSE [kind |-> "Record", token |-> token]

-----------------------------------------------------------------------------
(* Mentions, entries and days (src/src/log.rs). *)

\* the length of the run of letters that starts at s[i]
RECURSIVE letter_run(_, _)
letter_run(s, i) ==
    IF i <= Len(s) /\ s[i] \in Letters THEN 1 + letter_run(s, i + 1) ELSE 0

\* the captures of \#([A-Za-zñáéíóúç]+) in s from index i on, leftmost first;
\* a PersonName is the sequence of its letters
RECURSIVE captures_from(_, _)
captures_from(s, i) ==
    IF i > Len(s) THEN {}
    ELSE IF s[i] = "#" /\ letter_run(s, i + 1) > 0
    THEN {SubSeq(s, i + 1, i + letter_run(s, i + 1))}
            \cup captures_from(s, i + 1 + letter_run(s, i + 1))
    ELSE captures_from(s, i + 1)

parse_people(token) == captures_from(token.content, 1)

\* textwrap::dedent, first loop: the leading whitespace of the first line that
\* holds anything but whitespace; k is the index of that line, 0 when none
dedent_first(ls) ==
    IF \E k \in 1..Len(ls) : any_non_whitespace(ls[k])
    THEN CHOOSE k \in 1..Len(ls) :
             any_non_whitespace(ls[k]) /\ \A j \in 1..(k - 1) : ~any_non_whitespace(ls[j])
    ELSE 0

\* textwrap::dedent, second loop body: the prefix after looking at one more line
dedent_shorten(prefix, line) ==
    LET n == IF Len(line) < Len(prefix) THEN Len(line) ELSE Len(prefix)
        whitespace_idx ==
            IF \E i \in 1..n : line[i] # prefix[i]
            THEN (CHOOSE i \in 1..n :
                      line[i] # prefix[i] /\ \A j \in 1..(i - 1) : line[j] = prefix[j]) - 1
            ELSE Len(line)
    IN IF whitespace_idx < Len(line) /\ whitespace_idx < Len(prefix)
       THEN SubSeq(line, 1, whitespace_idx)
       ELSE prefix

RECURSIVE dedent_prefix(_, _, _)
dedent_prefix(ls, k, prefix) ==
    IF k > Len(ls) THEN prefix
    ELSE dedent_prefix(ls, k + 1, dedent_shorten(prefix, ls[k]))

starts_with(s, prefix) ==
    Len(prefix) <= Len(s) /\ SubSeq(s, 1, Len(prefix)) = prefix

\* textwrap::dedent: removes the common leading whitespace of the lines that
\* hold anything but whitespace; a line of whitespace only becomes empty
dedent(s) ==
    LET ls == lines(s)
        first == dedent_first(ls)
        prefix == IF first = 0 THEN <<>>
                  ELSE dedent_prefix(ls, first + 1,
                           SubSeq(ls[first], 1, leading_whitespace(ls[first])))
        out == [i \in 1..Len(ls) |->
                   IF starts_with(ls[i], prefix) /\ any_non_whitespace(ls[i])
                   THEN SubSeq(ls[i], Len(prefix) + 1, Len(ls[i]))
                   ELSE <<>>]
    IN IF s # <<>> /\ s[Len(s)] = NL
       THEN join(out, <<NL>>) \o <<NL>>
       ELSE join(out, <<NL>>)

\* " ".repeat(n)
repeat_space(n) == [i \in 1..n |-> " "]

\* parse_entry taking main from every token of the buffer
parse_entry_main_of_all(toks) ==
    LET content_lines == [i \in 1..Len(toks) |->
                             repeat_space(toks[i].indentation) \o toks[i].content]
    IN [main |-> UNION {parse_people(toks[i]) : i \in 1..Len(toks)},
        related |-> UNION {parse_people(toks[i]) : i \in 1..Len(toks)},
        content |-> dedent(join(content_lines, <<NL>>))]

\* parse_entry forgetting the indentation of the lines
parse_entry_no_indentation(toks) ==
    LET content_lines == [i \in 1..Len(toks) |-> toks[i].content]
    IN [main |-> parse_people(toks[1]),
        related |-> UNION {parse_people(toks[i]) : i \in 1..Len(toks)},
        content |-> dedent(join(content_lines, <<NL>>))]

parse_entry(toks) ==
    LET first_token == toks[1]
        content_lines == [i \in 1..Len(toks) |->
                             repeat_space(toks[i].indentation) \o toks[i].content]
    IN [main |-> parse_people(first_token),
        related |-> UNION {parse_people(toks[i]) : i \in 1..Len(toks)},
        content |-> dedent(join(content_lines, <<NL>>))]

\* the loop of parse_day from token i on, with its buffer and its entries
RECURSIVE parse_day_loop(_, _, _, _)
parse_day_loop(ls, i, buffer, entries) ==
    IF i > Len(ls)
    THEN IF buffer # <<>> THEN Append(entries, parse_entry(buffer)) ELSE entries
    ELSE LET is_top_level == ls[i].indentation = 0
         IN IF is_top_level /\ buffer # <<>>
            THEN parse_day_loop(ls, i + 1, <<ls[i]>>, Append(entries, parse_entry(buffer)))
            ELSE parse_day_loop(ls, i + 1, Append(buffer, ls[i]), entries)

parse_day(date, ls) ==
    [date |-> date.value, entries |-> parse_day_loop(ls, 1, <<>>, <<>>)]

-----------------------------------------------------------------------------
(* The day grouper and log assembler, and the renderer (src/src/log.rs). *)

\* the locals of parse_log_file_content before its loop
parser_start ==
    [buffered_date |-> NoDate, buffered_lines |-> <<>>, days |-> <<>>, panicked |-> FALSE]

\* arm_date keeping the buffered lines after closing the Day
arm_date_keeps_lines(st, date) ==
    IF st.buffered_lines # <<>>
    THEN IF ~st.buffered_date.some
         THEN [st EXCEPT !.panicked = TRUE]
         ELSE [st EXCEPT !.days = Append(st.days, parse_day(st.buffered_date, st.buffered_lines)),
                         !.buffered_date = date]
    ELSE [st EXCEPT !.buffered_date = date]

\* arm_date giving lines without a date to the date that follows them
arm_date_no_expect(st, date) ==
    IF st.buffered_lines # <<>>
    THEN [st EXCEPT !.days = Append(st.days,
                        parse_day(IF st.buffered_date.some THEN st.buffered_date ELSE date,
                                  st.buffered_lines)),
                    !.buffered_lines = <<>>,
                    !.buffered_date = date]
    ELSE [st EXCEPT !.buffered_date = date]

\* the arm Line::Date(date) of the loop; expect() panics on None
arm_date(st, date) ==
    IF st.buffered_lines # <<>>
    THEN IF ~st.buffered_date.some
         THEN [st EXCEPT !.panicked = TRUE]
         ELSE [st EXCEPT !.days = Append(st.days, parse_day(st.buffered_date, st.buffered_lines)),
                         !.buffered_lines = <<>>,
                         !.buffered_date = date]
    ELSE [st EXCEPT !.buffered_date = date]

\* the arm Line::Record(token) of the loop
arm_record(st, token) ==
    [st EXCEPT !.buffered_lines = Append(st.buffered_lines, token)]

\* one turn of the loop of parse_log_file_content
loop_body(st, token) ==
    LET line == into_line(token)
    IN CASE line.kind = "Empty" -> st
         [] line.kind = "Date" -> arm_date(st, line.date)
         [] line.kind = "Record" -> arm_record(st, line.token)

\* the code of parse_log_file_content after its loop
after_loop(st) ==
    IF st.buffered_lines # <<>>
    THEN IF ~st.buffered_date.some
         THEN [st EXCEPT !.panicked = TRUE]
         ELSE [st EXCEPT !.days = Append(st.days, parse_day(st.buffered_date, st.buffered_lines))]
    ELSE st

RECURSIVE parse_loop(_, _, _)
parse_loop(toks, i, st) ==
    IF st.panicked \/ i > Len(toks) THEN st
    ELSE parse_loop(toks, i + 1, loop_body(st, toks[i]))

\* the end of parse_log_file_content, unless the loop panicked
finish(st) == IF st.panicked THEN st ELSE after_loop(st)

\* what parse_log_file_content returns: the Log, or a panic
parse_result(st) ==
    [panicked |-> st.panicked,
     log |-> [days |-> IF st.panicked THEN <<>> ELSE st.days]]

\* parse_log_file_content as a function
parse_log_file_content(text) ==
    parse_result(finish(parse_loop(tokenize(text), 1, parser_start)))

\* Display for Entry
display_entry(entry) == entry.content

\* Display for Day with an empty line between two Entries
display_day_blank_line(day) ==
    LET entries == [i \in 1..Len(day.entries) |-> display_entry(day.entries[i])]
    IN <<"#", " ", DateText(day.date)>> \o <<NL, NL>> \o join(entries, <<NL, NL>>)

\* Display for Day
display_day(day) ==
    LET entries == [i \in 1..Len(day.entries) |-> display_entry(day.entries[i])]
        fmt_entries == join(entries, <<NL>>)
    IN <<"#", " ", DateText(day.date)>> \o <<NL, NL>> \o fmt_entries

\* Display for Log
display_log(log) ==
    LET ds == [i \in 1..Len(log.days) |-> display_day(log.days[i])]
    IN join(ds, <<NL, NL>>) \o <<NL>>

-----------------------------------------------------------------------------
(* The log merger (src/src/use_cases.rs). *)

Max(S) == CHOOSE x \in S : \A y \in S : x >= y

\* merge_days with the new entries first
merge_days_new_first(previous_day, new_day) ==
    [date |-> previous_day.date, entries |-> new_day.entries \o previous_day.entries]

merge_days(previous_day, new_day) ==
    [date |-> previous_day.date, entries |-> previous_day.entries \o new_day.entries]

\* the HashMap collected from (day.date, day): a later Day of a date replaces
\* an earlier one
collect_by_date(ds) ==
    [d \in {ds[i].date : i \in 1..Len(ds)} |->
        ds[Max({i \in 1..Len(ds) : ds[i].date = d})]]

\* HashMap::remove leaving the entry in the map
map_remove_nothing(map, key) == map

\* HashMap::remove
map_remove(map, key) == [d \in (DOMAIN map) \ {key} |-> map[d]]

\* the loop over new.days from index i on: the map left and the days pushed
RECURSIVE merge_new_days(_, _, _, _)
merge_new_days(new_days, i, previous_days, ds) ==
    IF i > Len(new_days) THEN [previous_days |-> previous_days, days |-> ds]
    ELSE LET day == new_days[i]
         IN IF day.date \in DOMAIN previous_days
            THEN merge_new_days(new_days, i + 1, map_remove(previous_days, day.date),
                     Append(ds, merge_days(previous_days[day.date], day)))
            ELSE merge_new_days(new_days, i + 1, previous_days, Append(ds, day))

\* HashMap::into_values: the values in an order the map chooses
into_values(map) ==
    LET n == Cardinality(DOMAIN map)
    IN {[k \in 1..n |-> map[f[k]]] :
           f \in {g \in [1..n -> DOMAIN map] : \A j, k \in 1..n : g[j] = g[k] => j = k}}

\* sort_by_key without sorting
no_sort(ds) == ds

\* sort_by_key(|day| day.date), a stable sort: a Day goes after the Days of
\* its date or of an earlier one
RECURSIVE insert_by_date(_, _)
insert_by_date(sorted, day) ==
    IF sorted = <<>> THEN <<day>>
    ELSE IF sorted[Len(sorted)].date <= day.date THEN Append(sorted, day)
    ELSE Append(insert_by_date(SubSeq(sorted, 1, Len(sorted) - 1), day), sorted[Len(sorted)])

RECURSIVE sort_from(_, _, _)
sort_from(ds, i, sorted) ==
    IF i > Len(ds) THEN sorted ELSE sort_from(ds, i + 1, insert_by_date(sorted, ds[i]))

sort_by_key(ds) == sort_from(ds, 1, <<>>)

\* merge_logs: every Log it can return, one per order of into_values
merge_outcomes(previous_log, new_log) ==
    LET r == merge_new_days(new_log.days, 1, collect_by_date(previous_log.days), <<>>)
    IN {[days |-> sort_by_key(r.days \o rest)] : rest \in into_values(r.previous_days)}

\* merge_logs as a function
merge_logs(previous_log, new_log) ==
    CHOOSE log \in merge_outcomes(previous_log, new_log) : TRUE

-----------------------------------------------------------------------------
(* Reading the log files (src/src/log.rs). *)

\* A file name is a sequence of characters that ends with the atom
\* "people.md" or "notes.md"; the order of the characters is that of their
\* first bytes.
CharOrd(c) ==
    CASE c = "a" -> 1
      [] c = "b" -> 2
      [] c = "notes.md" -> 3
      [] c = "people.md" -> 4

\* Ord for paths: byte by byte, a proper prefix first
RECURSIVE path_less(_, _)
path_less(a, b) ==
    IF b = <<>> THEN FALSE
    ELSE IF a = <<>> THEN TRUE
    ELSE IF Head(a) # Head(b) THEN CharOrd(Head(a)) < CharOrd(Head(b))
    ELSE path_less(Tail(a), Tail(b))

\* the pattern {base}/log/*people.md
glob_matches(name) == name # <<>> /\ name[Len(name)] = "people.md"

\* files.sort()
sorted_paths(S) ==
    [k \in 1..Cardinality(S) |->
        CHOOSE name \in S : Cardinality({other \in S : path_less(other, name)}) = k - 1]

\* find_log_files on the directory dir (file name -> content)
find_log_files(dir) == sorted_paths({name \in DOMAIN dir : glob_matches(name)})

\* the content of a file that cannot be read (fs::read_to_string fails)
Unreadable == <<"unreadable">>

\* one turn of the loop of read_logs: the days after reading the file, or a
\* panic (unwrap of the read, or the parser's panic)
extend_days(ds, r) ==
    IF r.panicked THEN [panicked |-> TRUE, days |-> ds]
    ELSE [panicked |-> FALSE, days |-> ds \o r.log.days]

read_one(ds, text) ==
    IF text = Unreadable THEN [panicked |-> TRUE, days |-> ds]
    ELSE extend_days(ds, parse_log_file_content(text))

-----------------------------------------------------------------------------
(* The per-person projection (src/src/use_cases.rs). *)

\* Option<Log>
None == [some |-> FALSE, log |-> [days |-> <<>>]]
Some(log) == [some |-> TRUE, log |-> log]

\* HashMap::insert
map_insert(map, key, value) ==
    [k \in (DOMAIN map) \cup {key} |-> IF k = key THEN value ELSE map[k]]

\* the ignored person left out of the map
ignore_person_skipped(map, person) == map

\* per_person.insert(person, None)
ignore_person(map, person) == map_insert(map, person, None)

\* Log { days: vec![Day { date: day.date, entries: vec![entry.clone()] }] }
singleton_log(date, entry) == [days |-> <<[date |-> date, entries |-> <<entry>>]>>]

\* the accumulator replaced by the new Log
accumulate_overwrite(map, person, new_log) ==
    {map_insert(map, person, Some(new_log))}

\* the maps after the Log new_log of one Entry is added to the accumulator of
\* person: one for each Log that merge_logs can return
accumulate(map, person, new_log) ==
    IF person \in DOMAIN map
    THEN IF map[person].some
         THEN {map_insert(map, person, Some(updated)) :
                   updated \in merge_outcomes(map[person].log, new_log)}
         ELSE {map_insert(map, person, Some(new_log))}
    ELSE {map_insert(map, person, Some(new_log))}

-----------------------------------------------------------------------------
(* The last interactions and the reminders (src/src/use_cases.rs). *)

DAYS_IN_A_MONTH == 30

\* Option<DaysAgo>
NoDays == [some |-> FALSE, value |-> 0]
SomeDays(n) == [some |-> TRUE, value |-> n]

LastInteraction(person, last, days_beyond_reachout_threshold) ==
    [person |-> person, last |-> last,
     days_beyond_reachout_threshold |-> days_beyond_reachout_threshold]

\* the date of the Day traversed last, whatever the date recorded
cmp_latest(a, b) == a

\* cmp::max
cmp_max(a, b) == IF a >= b THEN a ELSE b

\* the loop over entry.main: each person of the set is inserted once
insert_main(map, main, date) ==
    [p \in (DOMAIN map) \cup main |->
        IF p \in main
        THEN (IF p \in DOMAIN map THEN cmp_max(date, map[p]) ELSE date)
        ELSE map[p]]

\* the loop over day.entries, from the Entry j on
RECURSIVE insert_entries(_, _, _)
insert_entries(map, day, j) ==
    IF j > Len(day.entries) THEN map
    ELSE insert_entries(insert_main(map, day.entries[j].main, day.date), day, j + 1)

\* the loop over log.days, from the Day i on
RECURSIVE insert_days(_, _, _)
insert_days(map, log, i) ==
    IF i > Len(log.days) THEN map
    ELSE insert_days(insert_entries(map, log.days[i], 1), log, i + 1)

\* the key (interaction.last, interaction.person) of the sort
key_less(x, y) ==
    \/ x.last < y.last
    \/ x.last = y.last /\ path_less(x.person, y.person)

\* into_iter().map(..).collect() and sort_by_key: the persons are the keys of
\* a map, so no two interactions have the same key
sorted_interactions(map) ==
    LET all == {LastInteraction(p, map[p], NoDays) : p \in DOMAIN map}
    IN [k \in 1..Cardinality(all) |->
           CHOOSE x \in all : Cardinality({y \in all : key_less(y, x)}) = k - 1]

get_last_interactions(log) == sorted_interactions(insert_days(<<>>, log, 1))

\* str::split_whitespace: the runs of characters that are not whitespace
RECURSIVE split_whitespace_from(_, _, _)
split_whitespace_from(s, i, word) ==
    IF i > Len(s) THEN (IF word = <<>> THEN <<>> ELSE <<word>>)
    ELSE IF s[i] \in Whitespace
         THEN (IF word = <<>> THEN <<>> ELSE <<word>>)
                  \o split_whitespace_from(s, i + 1, <<>>)
         ELSE split_whitespace_from(s, i + 1, Append(word, s[i]))

split_whitespace(s) == split_whitespace_from(s, 1, <<>>)

\* the decimal digits
DigitValue ==
    [c \in {"0", "1", "2", "3", "4", "5", "6", "7", "8", "9"} |->
        CASE c = "0" -> 0 [] c = "1" -> 1 [] c = "2" -> 2 [] c = "3" -> 3
          [] c = "4" -> 4 [] c = "5" -> 5 [] c = "6" -> 6 [] c = "7" -> 7
          [] c = "8" -> 8 [] c = "9" -> 9]

RECURSIVE digits_value(_)
digits_value(s) ==
    IF s = <<>> THEN 0
    ELSE 10 * digits_value(SubSeq(s, 1, Len(s) - 1)) + DigitValue[s[Len(s)]]

\* str::parse::<i64>: an optional sign and one decimal digit or more
parse_i64(s) ==
    LET signed == s # <<>> /\ s[1] \in {"+", "-"}
        digits == IF signed THEN Tail(s) ELSE s
    IN IF digits # <<>> /\ \A i \in 1..Len(digits) : digits[i] \in DOMAIN DigitValue
       THEN [ok |-> TRUE,
             value |-> IF signed /\ s[1] = "-" THEN 0 - digits_value(digits)
                       ELSE digits_value(digits)]
       ELSE [ok |-> FALSE, value |-> 0]

\* Result<Duration, String>, or the panic of an index out of bounds; a
\* Duration is a number of days
OkDuration(n) == [kind |-> "Ok", days |-> n, reason |-> ""]
ErrDuration(reason) == [kind |-> "Err", days |-> 0, reason |-> reason]
PanicDuration == [kind |-> "Panic", days |-> 0, reason |-> ""]

\* the match on the unit
match_unit(amount, unit) ==
    IF unit \in {<<"m", "o", "n", "t", "h">>, <<"m", "o", "n", "t", "h", "s">>}
    THEN OkDuration(amount * DAYS_IN_A_MONTH)
    ELSE IF unit \in {<<"w", "e", "e", "k">>, <<"w", "e", "e", "k", "s">>}
    THEN OkDuration(7 * amount)
    ELSE IF unit \in {<<"d", "a", "y">>, <<"d", "a", "y", "s">>}
    THEN OkDuration(amount)
    ELSE ErrDuration("unsupported unit found")

parse_duration_text(str) ==
    LET parts == split_whitespace(str)
    IN IF Len(parts) < 1 THEN PanicDuration
       ELSE IF ~parse_i64(parts[1]).ok THEN ErrDuration("unsupported amount found")
       ELSE IF Len(parts) < 2 THEN PanicDuration
       ELSE match_unit(parse_i64(parts[1]).value, parts[2])

\* assess_reminder that also reports the day of the threshold as overdue
assess_reminder_on_threshold(interaction, reminder_after, now) ==
    LET days_to_threshold == (interaction.last + reminder_after) - now
    IN LastInteraction(interaction.person, interaction.last,
           IF days_to_threshold > 0 THEN NoDays ELSE SomeDays(0 - days_to_threshold))

\* assess_reminder, with the date that Local::now() gives
assess_reminder(interaction, reminder_after, now) ==
    LET threshold == interaction.last + reminder_after
        days_to_threshold == threshold - now
    IN LastInteraction(interaction.person, interaction.last,
           IF days_to_threshold >= 0 THEN NoDays ELSE SomeDays(0 - days_to_threshold))

\* the second loop of identify_reachouts
with_reminder(without_reminders, reminders, now) ==
    [i \in 1..Len(without_reminders) |->
        IF without_reminders[i].person \in DOMAIN reminders
        THEN assess_reminder(without_reminders[i],
                             reminders[without_reminders[i].person], now)
        ELSE without_reminders[i]]

-----------------------------------------------------------------------------
(* Writing the per-person logs (src/src/use_cases.rs, people_per_person.rs). *)

\* a path of the directory: no file, or a file and its content
Absent == [exists |-> FALSE, content |-> <<>>]
File(text) == [exists |-> TRUE, content |-> text]

\* format!("{person}.md") in the directory: ".md" is kept as one atom
infer_log_path(person) == person \o <<".md">>

\* enum LogWritten
LogWritten(kind, path) == [kind |-> kind, path |-> path]

\* the directory after fs::write(path, content) succeeds
fs_write(d, path, text) == [q \in DOMAIN d |-> IF q = path THEN File(text) ELSE d[q]]

\* the directories fs::write can leave when it fails: the file is as it
\* was, or it was created or truncated and nothing was written
fs_write_failed(d, path) == {d, fs_write(d, path, <<>>)}

\* the directory after fs::remove_file(path) succeeds
fs_remove_file(d, path) == [q \in DOMAIN d |-> IF q = path THEN Absent ELSE d[q]]

\* the program stops at the first failure
exit_on_failure(log_written) ==
    IF log_written.kind \in {"FailedToWrite", "FailedToDelete"} THEN "write_failed"
    ELSE "write"

\* the match of main on the LogWritten: a line is printed and the loop goes on
match_log_written(log_written) == "write"

-----------------------------------------------------------------------------
(* The input texts. *)

\* the physical lines an input text is made of
LineSet ==
    { <<>>,
      <<"#", " ", "2000-01-01">>,
      <<"#", " ", "2000-01-02">>,
      <<"-", " ", "#", "a">>,
      <<" ", " ", "#", "b">>,
      <<" ", "-">>,
      <<"\t", "-", "#", "a", "b">>,
      <<" ", " ">> }

SeqsUpTo(S, n) == UNION {[1..k -> S] : k \in 1..n}

\* the text made of the physical lines ls
text_of_lines(ls) == join(ls, <<NL>>)

\* a canonical-form text is written item by item: an item opens a new day with
\* its header and the first line of its first entry, or opens a new entry of the
\* current day, or adds a nested line to the current entry
TopLines == { <<"-", " ", "#", "a">>, <<"x">> }
NestedLines == { <<" ", " ", "#", "b">>, <<" ", " ", " ", " ", "-">> }
ItemSet ==
    [kind : {"day"}, date : Dates, line : TopLines]
        \cup [kind : {"top"}, line : TopLines]
        \cup [kind : {"nested"}, line : NestedLines]

item_lines(items, i) ==
    IF items[i].kind = "day"
    THEN (IF i = 1 THEN <<>> ELSE << <<>> >>)
             \o << <<"#", " ", DateText(items[i].date)>>, <<>>, items[i].line >>
    ELSE << items[i].line >>

RECURSIVE items_lines(_, _)
items_lines(items, i) ==
    IF i > Len(items) THEN <<>>
    ELSE item_lines(items, i) \o items_lines(items, i + 1)

\* the canonical text of the items, with its trailing newline
canonical_text(items) == text_of_lines(items_lines(items, 1)) \o <<NL>>

CanonicalItems ==
    {items \in {<<>>} \cup SeqsUpTo(ItemSet, MaxCanonLines) :
        items # <<>> => items[1].kind = "day"}

-----------------------------------------------------------------------------
(* The program: parse one text, render the Log, parse the rendered text. *)

ParserState ==
    [buffered_date |-> buffered_date, buffered_lines |-> buffered_lines,
     days |-> days, panicked |-> FALSE]

SetParser(st) ==
    /\ buffered_date' = st.buffered_date
    /\ buffered_lines' = st.buffered_lines
    /\ days' = st.days

empty_log == [days |-> <<>>]

NoResult == [panicked |-> FALSE, log |-> empty_log]

\* the parser before it runs
IdleParse ==
    /\ tokens = <<>>
    /\ pos = 1
    /\ buffered_date = NoDate
    /\ buffered_lines = <<>>
    /\ days = <<>>
    /\ rendered = <<>>
    /\ reparsed = NoResult

\* no merge is running
IdleMerge ==
    /\ previous = empty_log /\ new = empty_log /\ third = empty_log
    /\ merged = empty_log /\ identity = empty_log
    /\ left = empty_log /\ right = empty_log

\* read_logs is not running
IdleRead ==
    /\ files = <<>> /\ paths = <<>> /\ path_idx = 1 /\ read_days = <<>>

\* split_log_per_person is not running
IdleSplit ==
    /\ aggregate = empty_log /\ should_ignore = {} /\ per_person = <<>>
    /\ day_idx = 1 /\ entry_idx = 1 /\ visited = {}

\* Option<DurationStr>
NoDuration == [some |-> FALSE, text |-> <<>>]
SomeDuration(text) == [some |-> TRUE, text |-> text]

\* a Person of config.people
Person(name, remind_after) == [name |-> name, remind_after |-> remind_after]
NoPerson == Person(<<>>, NoDuration)

\* the Result of identify_reachouts before it returns
NoReachouts == [kind |-> "None", with_reminder |-> <<>>, reason |-> ""]

\* neither get_last_interactions nor identify_reachouts is running
IdleSummary ==
    /\ interactions = <<>> /\ to_be_reminded = <<>> /\ people_seen = 0
    /\ config_person = NoPerson /\ today = 0 /\ reachouts = NoReachouts

\* the loop of people_per_person is not running
IdleWrite == per_person_dir = <<>> /\ pending = {} /\ written = <<>>

IdleUse == IdleSplit /\ IdleSummary /\ IdleWrite

Init ==
    /\ pc = "start"
    /\ \E ls \in SeqsUpTo(LineSet, MaxLines) : content = text_of_lines(ls)
    /\ IdleParse /\ IdleMerge /\ IdleRead /\ IdleUse

\* the texts of canonical form only
InitCanonical ==
    /\ pc = "start"
    /\ \E items \in CanonicalItems : content = canonical_text(items)
    /\ IdleParse /\ IdleMerge /\ IdleRead /\ IdleUse

\* let tokens = tokenize(content)
Tokenize ==
    /\ pc = "start"
    /\ tokens' = tokenize(content)
    /\ pc' = "loop"
    /\ UNCHANGED <<content, pos, buffered_date, buffered_lines, days, rendered, reparsed>>
    /\ UNCHANGED <<merge_vars, read_vars, use_vars>>

\* a turn of the loop on an Empty line
LineEmpty ==
    /\ pc = "loop" /\ pos <= Len(tokens)
    /\ into_line(tokens[pos]).kind = "Empty"
    /\ pos' = pos + 1
    /\ UNCHANGED <<pc, content, tokens, buffered_date, buffered_lines, days, rendered, reparsed>>
    /\ UNCHANGED <<merge_vars, read_vars, use_vars>>

\* a turn of the loop on a date header
LineDate ==
    /\ pc = "loop" /\ pos <= Len(tokens)
    /\ into_line(tokens[pos]).kind = "Date"
    /\ LET st == arm_date(ParserState, into_line(tokens[pos]).date)
       IN /\ SetParser(st)
          /\ pc' = IF st.panicked THEN "panic" ELSE "loop"
    /\ pos' = pos + 1
    /\ UNCHANGED <<content, tokens, rendered, reparsed>>
    /\ UNCHANGED <<merge_vars, read_vars, use_vars>>

\* a turn of the loop on a Record line
LineRecord ==
    /\ pc = "loop" /\ pos <= Len(tokens)
    /\ into_line(tokens[pos]).kind = "Record"
    /\ SetParser(arm_record(ParserState, into_line(tokens[pos]).token))
    /\ pos' = pos + 1
    /\ UNCHANGED <<pc, content, tokens, rendered, reparsed>>
    /\ UNCHANGED <<merge_vars, read_vars, use_vars>>

\* the end of the stream: the last Day is closed and the Log returned
EndOfStream ==
    /\ pc = "loop" /\ pos > Len(tokens)
    /\ LET st == after_loop(ParserState)
       IN /\ SetParser(st)
          /\ pc' = IF st.panicked THEN "panic" ELSE "parsed"
    /\ UNCHANGED <<content, tokens, pos, rendered, reparsed>>
    /\ UNCHANGED <<merge_vars, read_vars, use_vars>>

\* format!("{log}")
DisplayLog ==
    /\ pc = "parsed"
    /\ rendered' = display_log([days |-> days])
    /\ pc' = "rendered"
    /\ UNCHANGED <<content, tokens, pos, buffered_date, buffered_lines, days, reparsed>>
    /\ UNCHANGED <<merge_vars, read_vars, use_vars>>

\* parse_log_file_content(rendered)
Reparse ==
    /\ pc = "rendered"
    /\ reparsed' = parse_log_file_content(rendered)
    /\ pc' = "reparsed"
    /\ UNCHANGED <<content, tokens, pos, buffered_date, buffered_lines, days, rendered>>
    /\ UNCHANGED <<merge_vars, read_vars, use_vars>>

\* the Entries of the Logs that are merged: one for each Log
EntryA == parse_entry(<<tokenize_line(<<"-", " ", "#", "a">>, 0)>>)
EntryB == parse_entry(<<tokenize_line(<<"-", " ", "#", "b">>, 0)>>)
EntryC == parse_entry(<<tokenize_line(<<"x">>, 0), tokenize_line(<<" ", " ", "#", "a">>, 1)>>)

\* the Logs of at most MaxLogDays Days, in any order of dates and with
\* repeated dates, as parsing a file returns them; every Day holds entry
LogsOf(entry) ==
    {[days |-> ds] : ds \in {<<>>} \cup
        SeqsUpTo([date : Dates, entries : {<<entry>>}], MaxLogDays)}

InitMerge ==
    /\ pc = "merge"
    /\ previous \in LogsOf(EntryA)
    /\ new \in LogsOf(EntryB)
    /\ third \in LogsOf(EntryC)
    /\ merged = empty_log /\ identity = empty_log
    /\ left = empty_log /\ right = empty_log
    /\ content = <<>>
    /\ IdleParse /\ IdleRead /\ IdleUse

\* merge_logs(previous, new)
MergeLogs ==
    /\ pc = "merge"
    /\ merged' \in merge_outcomes(previous, new)
    /\ pc' = "merged"
    /\ UNCHANGED <<previous, new, third, identity, left, right>>
    /\ UNCHANGED <<parse_vars, read_vars, use_vars>>

\* merge_logs(previous, Log { days: vec![] })
MergeEmpty ==
    /\ pc = "merged"
    /\ identity' \in merge_outcomes(previous, empty_log)
    /\ pc' = "identity"
    /\ UNCHANGED <<previous, new, third, merged, left, right>>
    /\ UNCHANGED <<parse_vars, read_vars, use_vars>>

\* merge_logs(merge_logs(previous, new), third)
MergeLeft ==
    /\ pc = "identity"
    /\ left' \in merge_outcomes(merged, third)
    /\ pc' = "left"
    /\ UNCHANGED <<previous, new, third, merged, identity, right>>
    /\ UNCHANGED <<parse_vars, read_vars, use_vars>>

\* merge_logs(previous, merge_logs(new, third))
MergeRight ==
    /\ pc = "left"
    /\ right' \in UNION {merge_outcomes(previous, inner) :
                             inner \in merge_outcomes(new, third)}
    /\ pc' = "right"
    /\ UNCHANGED <<previous, new, third, merged, identity, left>>
    /\ UNCHANGED <<parse_vars, read_vars, use_vars>>

NextMerge ==
    \/ MergeLogs
    \/ MergeEmpty
    \/ MergeLeft
    \/ MergeRight

SpecMerge == InitMerge /\ [][NextMerge]_vars

\* the names of the files of the directory log/
FileNames ==
    { <<"a", "people.md">>, <<"a", "b", "people.md">>, <<"b", "people.md">>,
      <<"a", "notes.md">> }

\* the contents of the files: three well-formed logs, and a text whose first
\* line has no date
FileTexts ==
    { canonical_text(<<[kind |-> "day", date |-> 1, line |-> <<"-", " ", "#", "a">>]>>),
      canonical_text(<<[kind |-> "day", date |-> 1, line |-> <<"-", " ", "#", "b">>],
                       [kind |-> "day", date |-> 2, line |-> <<"-", " ", "#", "b">>]>>),
      canonical_text(<<[kind |-> "day", date |-> 2, line |-> <<"x">>]>>),
      text_of_lines(<< <<"-", " ", "#", "a">> >>) }

InitRead ==
    /\ pc = "read"
    /\ \E present \in SUBSET FileNames :
           files \in [present -> FileTexts \cup {Unreadable}]
    /\ paths = <<>> /\ path_idx = 1 /\ read_days = <<>>
    /\ content = <<>>
    /\ IdleParse /\ IdleMerge /\ IdleUse

SetRead(r) ==
    /\ read_days' = r.days
    /\ pc' = IF r.panicked THEN "panic" ELSE "read_loop"

\* let files = find_log_files(people_dir)
FindLogFiles ==
    /\ pc = "read"
    /\ paths' = find_log_files(files)
    /\ pc' = "read_loop"
    /\ UNCHANGED <<files, path_idx, read_days>>
    /\ UNCHANGED <<parse_vars, merge_vars, use_vars>>

\* a turn of the loop of read_logs
ReadFile ==
    /\ pc = "read_loop" /\ path_idx <= Len(paths)
    /\ SetRead(read_one(read_days, files[paths[path_idx]]))
    /\ path_idx' = path_idx + 1
    /\ UNCHANGED <<files, paths>>
    /\ UNCHANGED <<parse_vars, merge_vars, use_vars>>

\* Log { days }
ReturnLog ==
    /\ pc = "read_loop" /\ path_idx > Len(paths)
    /\ pc' = "read_done"
    /\ UNCHANGED <<files, paths, path_idx, read_days>>
    /\ UNCHANGED <<parse_vars, merge_vars, use_vars>>

NextRead ==
    \/ FindLogFiles
    \/ ReadFile
    \/ ReturnLog

SpecRead == InitRead /\ [][NextRead]_vars

\* an Entry of two persons: a is on its first line, b on a nested one
EntryAB ==
    parse_entry(<<tokenize_line(<<"-", " ", "#", "a">>, 0),
                  tokenize_line(<<" ", " ", "#", "b">>, 1)>>)

\* the persons of the model
PersonNames == { <<"a">>, <<"b">> }

\* the Entries of a Day of the aggregate Log
DayEntries == { <<EntryA>>, <<EntryAB, EntryC>>, <<EntryB, EntryA>> }

\* the aggregate Logs: at most MaxAggregateDays Days, in any order of dates
\* and with repeated dates, as read_logs returns them
AggregateLogs ==
    {[days |-> ds] : ds \in {<<>>} \cup
        SeqsUpTo([date : Dates, entries : DayEntries], MaxAggregateDays)}

InitSplit ==
    /\ pc = "split"
    /\ aggregate \in AggregateLogs
    /\ should_ignore \in SUBSET PersonNames
    /\ per_person = <<>>
    /\ day_idx = 1 /\ entry_idx = 1 /\ visited = {}
    /\ content = <<>>
    /\ IdleParse /\ IdleMerge /\ IdleRead /\ IdleSummary /\ IdleWrite

\* the Day and the Entry of the loops of split_log_per_person
InDay == pc = "split" /\ day_idx <= Len(aggregate.days)
CurrentDay == aggregate.days[day_idx]
InEntry == InDay /\ entry_idx <= Len(CurrentDay.entries)
CurrentEntry == CurrentDay.entries[entry_idx]

\* a turn of the loop over entry.related, on an ignored person
SplitIgnore ==
    /\ InEntry
    /\ \E person \in CurrentEntry.related \ visited :
           /\ person \in should_ignore
           /\ per_person' = ignore_person(per_person, person)
           /\ visited' = visited \cup {person}
    /\ UNCHANGED <<pc, aggregate, should_ignore, day_idx, entry_idx>>
    /\ UNCHANGED <<parse_vars, merge_vars, read_vars, summary_vars, write_vars>>

\* a turn of the loop over entry.related, on a person who is not ignored
SplitAccumulate ==
    /\ InEntry
    /\ \E person \in CurrentEntry.related \ visited :
           /\ person \notin should_ignore
           /\ per_person' \in accumulate(per_person, person,
                                  singleton_log(CurrentDay.date, CurrentEntry))
           /\ visited' = visited \cup {person}
    /\ UNCHANGED <<pc, aggregate, should_ignore, day_idx, entry_idx>>
    /\ UNCHANGED <<parse_vars, merge_vars, read_vars, summary_vars, write_vars>>

\* the loop over entry.related ends: the next Entry of the Day
SplitNextEntry ==
    /\ InEntry
    /\ visited = CurrentEntry.related
    /\ entry_idx' = entry_idx + 1
    /\ visited' = {}
    /\ UNCHANGED <<pc, aggregate, should_ignore, per_person, day_idx>>
    /\ UNCHANGED <<parse_vars, merge_vars, read_vars, summary_vars, write_vars>>

\* the loop over day.entries ends: the next Day of the Log
SplitNextDay ==
    /\ InDay
    /\ entry_idx > Len(CurrentDay.entries)
    /\ day_idx' = day_idx + 1
    /\ entry_idx' = 1
    /\ UNCHANGED <<pc, aggregate, should_ignore, per_person, visited>>
    /\ UNCHANGED <<parse_vars, merge_vars, read_vars, summary_vars, write_vars>>

\* the loop over log.days ends: per_person is returned
SplitReturn ==
    /\ pc = "split" /\ day_idx > Len(aggregate.days)
    /\ pc' = "split_done"
    /\ UNCHANGED split_vars
    /\ UNCHANGED <<parse_vars, merge_vars, read_vars, summary_vars, write_vars>>

NextSplit ==
    \/ SplitIgnore
    \/ SplitAccumulate
    \/ SplitNextEntry
    \/ SplitNextDay
    \/ SplitReturn

SpecSplit == InitSplit /\ [][NextSplit]_vars

InitInteractions ==
    /\ pc = "interactions"
    /\ aggregate \in AggregateLogs
    /\ should_ignore = {} /\ per_person = <<>>
    /\ day_idx = 1 /\ entry_idx = 1 /\ visited = {}
    /\ content = <<>>
    /\ IdleParse /\ IdleMerge /\ IdleRead /\ IdleSummary /\ IdleWrite

\* get_last_interactions(&log)
GetLastInteractions ==
    /\ pc = "interactions"
    /\ interactions' = get_last_interactions(aggregate)
    /\ pc' = "interactions_done"
    /\ UNCHANGED <<to_be_reminded, people_seen, config_person, today, reachouts>>
    /\ UNCHANGED <<parse_vars, merge_vars, read_vars, split_vars, write_vars>>

NextInteractions == GetLastInteractions

SpecInteractions == InitInteractions /\ [][NextInteractions]_vars

\* the day of the year 2000 of a calendar date: 2000-01-01 is day 1
MonthLengths == <<31, 29, 31, 30, 31, 30, 31, 31, 30, 31, 30, 31>>

RECURSIVE DaysBeforeMonth(_)
DaysBeforeMonth(month) ==
    IF month = 1 THEN 0 ELSE DaysBeforeMonth(month - 1) + MonthLengths[month - 1]

DayOf2000(month, day) == DaysBeforeMonth(month) + day

\* the dates Local::now() gives
Todays ==
    { DayOf2000(1, 1), DayOf2000(1, 2), DayOf2000(1, 3), DayOf2000(1, 9),
      DayOf2000(1, 16), DayOf2000(2, 1), DayOf2000(3, 31), DayOf2000(4, 1),
      DayOf2000(4, 10) }

\* the texts of remind_after in the configuration
DurationTexts ==
    { <<>>,
      <<"3">>,
      <<"x">>,
      <<"x", " ", "d", "a", "y", "s">>,
      <<"3", " ", "y", "e", "a", "r", "s">>,
      <<"1", " ", "d", "a", "y">>,
      <<"2", " ", "d", "a", "y", "s">>,
      <<"-", "1", " ", "d", "a", "y", "s">>,
      <<"1", " ", "w", "e", "e", "k">>,
      <<" ", "2", " ", " ", "w", "e", "e", "k", "s">>,
      <<"1", " ", "m", "o", "n", "t", "h">>,
      <<"3", " ", "m", "o", "n", "t", "h", "s">>,
      <<"1", " ", "w", "e", "e", "k", " ", "x">> }

\* the Vec<LastInteraction> given to identify_reachouts
InteractionVecs ==
    {<<>>}
        \cup {<<LastInteraction(<<"a">>, d, NoDays)>> : d \in Dates}
        \cup {<<LastInteraction(<<"b">>, d, NoDays), LastInteraction(<<"a">>, e, NoDays)>> :
                  d \in Dates, e \in Dates}

InitReachouts ==
    /\ pc = "reachouts"
    /\ interactions \in InteractionVecs
    /\ to_be_reminded = <<>> /\ people_seen = 0
    /\ config_person = NoPerson /\ today = 0 /\ reachouts = NoReachouts
    /\ content = <<>>
    /\ IdleParse /\ IdleMerge /\ IdleRead /\ IdleSplit /\ IdleWrite

\* the end of a turn of the loop over config.people that parsed a duration
SetReminder(name, r) ==
    /\ to_be_reminded' =
           IF r.kind = "Ok" THEN map_insert(to_be_reminded, name, r.days)
           ELSE to_be_reminded
    /\ reachouts' =
           IF r.kind = "Err" THEN [kind |-> "Err", with_reminder |-> <<>>, reason |-> r.reason]
           ELSE reachouts
    /\ pc' = CASE r.kind = "Ok" -> "reachouts"
               [] r.kind = "Err" -> "reachouts_err"
               [] r.kind = "Panic" -> "panic"

\* a turn of the loop over config.people, on a person with no remind_after
ConfigPersonPlain ==
    /\ pc = "reachouts" /\ people_seen < MaxPeople
    /\ people_seen' = people_seen + 1
    /\ \E name \in PersonNames : config_person' = Person(name, NoDuration)
    /\ UNCHANGED <<pc, interactions, to_be_reminded, today, reachouts>>
    /\ UNCHANGED <<parse_vars, merge_vars, read_vars, split_vars, write_vars>>

\* a turn of the loop over config.people, on a person with a remind_after
ConfigPersonReminder ==
    /\ pc = "reachouts" /\ people_seen < MaxPeople
    /\ \E name \in PersonNames, text \in DurationTexts :
           /\ config_person' = Person(name, SomeDuration(text))
           /\ SetReminder(name, parse_duration_text(text))
    /\ people_seen' = people_seen + 1
    /\ UNCHANGED <<interactions, today>>
    /\ UNCHANGED <<parse_vars, merge_vars, read_vars, split_vars, write_vars>>

\* the loop over without_reminders, and Ok(with_reminder)
AssessReminders ==
    /\ pc = "reachouts"
    /\ \E now \in Todays :
           /\ today' = now
           /\ reachouts' = [kind |-> "Ok",
                            with_reminder |-> with_reminder(interactions, to_be_reminded, now),
                            reason |-> ""]
    /\ pc' = "reachouts_done"
    /\ UNCHANGED <<interactions, to_be_reminded, people_seen, config_person>>
    /\ UNCHANGED <<parse_vars, merge_vars, read_vars, split_vars, write_vars>>

NextReachouts ==
    \/ ConfigPersonPlain
    \/ ConfigPersonReminder
    \/ AssessReminders

SpecReachouts == InitReachouts /\ [][NextReachouts]_vars

\* the Logs of the projection that is written
ProjectedLogs ==
    { singleton_log(1, EntryA),
      [days |-> <<[date |-> 1, entries |-> <<EntryAB, EntryC>>],
                  [date |-> 2, entries |-> <<EntryC>>]>>] }

\* the files of the directory: those of the persons, and the file of a
\* person who is not in the projection
OtherPerson == <<"a", "b">>
PersonPaths == {infer_log_path(person) : person \in PersonNames \cup {OtherPerson}}
StaleFile == File(<<"x", NL>>)

InitWrite ==
    /\ pc = "write"
    /\ \E present \in SUBSET PersonNames :
           /\ per_person \in [present -> {None} \cup {Some(log) : log \in ProjectedLogs}]
           /\ pending = present
    /\ per_person_dir \in [PersonPaths -> {Absent, StaleFile}]
    /\ written = <<>>
    /\ aggregate = empty_log /\ should_ignore = {}
    /\ day_idx = 1 /\ entry_idx = 1 /\ visited = {}
    /\ content = <<>>
    /\ IdleParse /\ IdleMerge /\ IdleRead /\ IdleSummary

\* the end of a turn of the loop of main
SetWritten(person, log_written) ==
    /\ written' = Append(written, log_written)
    /\ pending' = pending \ {person}
    /\ pc' = match_log_written(log_written)

\* write_person_log: fs::write succeeds
Written ==
    /\ pc = "write"
    /\ \E person \in pending :
           /\ per_person[person].some
           /\ per_person_dir' = fs_write(per_person_dir, infer_log_path(person),
                               display_log(per_person[person].log))
           /\ SetWritten(person, LogWritten("Written", infer_log_path(person)))
    /\ UNCHANGED <<parse_vars, merge_vars, read_vars, split_vars, summary_vars>>

\* write_person_log: fs::write fails
FailedToWrite ==
    /\ pc = "write"
    /\ \E person \in pending :
           /\ per_person[person].some
           /\ per_person_dir' \in fs_write_failed(per_person_dir, infer_log_path(person))
           /\ SetWritten(person, LogWritten("FailedToWrite", infer_log_path(person)))
    /\ UNCHANGED <<parse_vars, merge_vars, read_vars, split_vars, summary_vars>>

\* write_person_log: the person is ignored and has no file
NothingToDelete ==
    /\ pc = "write"
    /\ \E person \in pending :
           /\ ~per_person[person].some
           /\ ~per_person_dir[infer_log_path(person)].exists
           /\ SetWritten(person, LogWritten("NothingToDelete", infer_log_path(person)))
    /\ UNCHANGED per_person_dir
    /\ UNCHANGED <<parse_vars, merge_vars, read_vars, split_vars, summary_vars>>

\* write_person_log: the person is ignored and fs::remove_file succeeds
Deleted ==
    /\ pc = "write"
    /\ \E person \in pending :
           /\ ~per_person[person].some
           /\ per_person_dir[infer_log_path(person)].exists
           /\ per_person_dir' = fs_remove_file(per_person_dir, infer_log_path(person))
           /\ SetWritten(person, LogWritten("Deleted", infer_log_path(person)))
    /\ UNCHANGED <<parse_vars, merge_vars, read_vars, split_vars, summary_vars>>

\* write_person_log: the person is ignored and fs::remove_file fails
FailedToDelete ==
    /\ pc = "write"
    /\ \E person \in pending :
           /\ ~per_person[person].some
           /\ per_person_dir[infer_log_path(person)].exists
           /\ SetWritten(person, LogWritten("FailedToDelete", infer_log_path(person)))
    /\ UNCHANGED per_person_dir
    /\ UNCHANGED <<parse_vars, merge_vars, read_vars, split_vars, summary_vars>>

\* the loop over per_person_logs ends
WriteDone ==
    /\ pc = "write" /\ pending = {}
    /\ pc' = "write_done"
    /\ UNCHANGED <<parse_vars, merge_vars, read_vars, use_vars>>

NextWrite ==
    \/ Written
    \/ FailedToWrite
    \/ NothingToDelete
    \/ Deleted
    \/ FailedToDelete
    \/ WriteDone

SpecWrite == InitWrite /\ [][NextWrite]_vars

Next ==
    \/ Tokenize
    \/ LineEmpty
    \/ LineDate
    \/ LineRecord
    \/ EndOfStream
    \/ DisplayLog
    \/ Reparse

Spec == Init /\ [][Next]_vars

SpecCanonical == InitCanonical /\ [][Next]_vars

-----------------------------------------------------------------------------
(* Entry grouping. *)

Min(S) == CHOOSE x \in S : \A y \in S : x <= y

\* the k-th smallest element of a set of numbers
Nth(S, k) == CHOOSE x \in S : Cardinality({y \in S : y <= x}) = k

\* the tokens that open an Entry: the first one, and every later one at indentation 0
EntryStarts(toks) == {i \in 1..Len(toks) : i = 1 \/ toks[i].indentation = 0}

\* the last token of the run that the token at index s opens
RunEnd(toks, s) ==
    IF \E t \in EntryStarts(toks) : t > s
    THEN Min({t \in EntryStarts(toks) : t > s}) - 1
    ELSE Len(toks)

\* the Entry of the run of tokens s..e
RunEntry(toks, s, e) ==
    [main |-> parse_people(toks[s]),
     related |-> UNION {parse_people(toks[i]) : i \in s..e},
     content |-> dedent(join([i \in 1..(e - s + 1) |->
                        repeat_space(toks[s + i - 1].indentation) \o toks[s + i - 1].content],
                    <<NL>>))]

ExpectedEntries(toks) ==
    [k \in 1..Cardinality(EntryStarts(toks)) |->
        RunEntry(toks, Nth(EntryStarts(toks), k), RunEnd(toks, Nth(EntryStarts(toks), k)))]

\* C1: whenever the parser closes the buffered Record tokens into a Day, the
\* Day's Entries are the consecutive runs of those tokens, in order, a run
\* starting at the first token (whatever its indentation) and at every later
\* token of indentation 0; an Entry's main is the mention set of the first
\* token of its run and its related is the union of the mention sets of the run.
EntryGrouping ==
    [][Len(days') > Len(days) =>
          /\ Len(days') = Len(days) + 1
          /\ SubSeq(days', 1, Len(days)) = days
          /\ days'[Len(days')].entries = ExpectedEntries(buffered_lines)]_vars

\* a Day closed from tokens whose first one is indented, with two Entries, one
\* of them mentioning in a nested line somebody its first line does not
EntryGroupingWitness ==
    /\ pc = "parsed"
    /\ Len(days) = 1
    /\ Len(buffered_lines) >= 3
    /\ buffered_lines[1].indentation > 0
    /\ Len(days[1].entries) >= 2
    /\ \E i \in 1..Len(days[1].entries) :
           days[1].entries[i].main # days[1].entries[i].related

-----------------------------------------------------------------------------
(* Day grouping and the structural error. *)

Kind(toks, i) == into_line(toks[i]).kind

\* a Record line with no date header before it
RecordBeforeDate(toks) ==
    \E i \in 1..Len(toks) :
        Kind(toks, i) = "Record" /\ \A j \in 1..(i - 1) : Kind(toks, j) # "Date"

Headers(toks) == {i \in 1..Len(toks) : Kind(toks, i) = "Date"}

\* the indices of the Record lines between header h and the next header
RecordsOf(toks, h) ==
    {i \in (h + 1)..Len(toks) :
        Kind(toks, i) = "Record" /\ \A j \in (h + 1)..i : Kind(toks, j) # "Date"}

\* the members of a set of indices, in ascending order, as tokens
TokensAt(toks, S) == [k \in 1..Cardinality(S) |-> toks[Nth(S, k)]]

\* the headers that have a Record line of their own
OwningHeaders(toks) == {h \in Headers(toks) : RecordsOf(toks, h) # {}}

ExpectedDays(toks) ==
    [k \in 1..Cardinality(OwningHeaders(toks)) |->
        LET h == Nth(OwningHeaders(toks), k)
        IN [date |-> try_into_date(toks[h]).value,
            entries |-> ExpectedEntries(TokensAt(toks, RecordsOf(toks, h)))]]

Returned == {"parsed", "rendered", "reparsed"}
Ended == Returned \cup {"panic"}

\* C2: when no Record line precedes the first date header, parsing returns a
\* Log with one Day per date header that has Record lines before the next
\* header or the end, in source order, the Day carrying the header's date and
\* exactly those Record lines; Empty lines and headers without Record lines
\* add nothing.
DayGrouping ==
    (pc \in Ended /\ ~RecordBeforeDate(tokens)) =>
        (pc \in Returned /\ days = ExpectedDays(tokens))

\* two Days returned from a text that also holds an Empty line or a header
\* with no Record line of its own
DayGroupingWitness ==
    /\ pc = "parsed"
    /\ Len(days) >= 1
    /\ \E h \in Headers(tokens) : RecordsOf(tokens, h) = {}
    /\ \E h \in Headers(tokens) : Cardinality(RecordsOf(tokens, h)) >= 2

\* C3: parsing fails (panics, returning no Log) exactly when a Record line
\* occurs before any date header; every other text is parsed into a Log.
StructuralError ==
    /\ pc = "panic" => RecordBeforeDate(tokens)
    /\ pc \in Returned => ~RecordBeforeDate(tokens)
    /\ (pc = "loop" /\ pos > 1 /\ RecordBeforeDate(SubSeq(tokens, 1, pos - 1))) =>
           (days = <<>> /\ ~buffered_date.some)

\* the failure when a date header follows the Record line
StructuralErrorWitness ==
    /\ pc = "panic"
    /\ pos <= Len(tokens) + 1
    /\ Kind(tokens, pos - 1) = "Date"
    /\ days = <<>>

-----------------------------------------------------------------------------
(* Rendering and the round trips. *)

\* C4: rendering the Log parsed from a canonical-form text gives the text back
\* (canonical form: every day a header, a blank line and its entries, first
\* lines at indentation 0, nested lines indented with spaces, no tab, days
\* separated by one blank line, one trailing newline).
TextRoundTrip ==
    /\ pc # "panic"
    /\ pc \in {"rendered", "reparsed"} => rendered = content

\* a rendered text of two days, one of them with a nested line
TextRoundTripWitness ==
    /\ pc = "rendered"
    /\ Len(days) = 2
    /\ \E d \in 1..2 : \E i \in 1..Len(days[d].entries) :
           \E j \in 1..Len(days[d].entries[i].content) :
               days[d].entries[i].content[j] = NL

\* C5: parsing the rendered text of a parsed Log returns that Log.
LogRoundTrip ==
    pc = "reparsed" => (~reparsed.panicked /\ reparsed.log = [days |-> days])

\* the lines of a text that ends without a newline
RECURSIVE flatten(_)
flatten(seqs) == IF seqs = <<>> THEN <<>> ELSE Head(seqs) \o flatten(Tail(seqs))

\* the lines of a Day: header, blank line, the lines of its Entries, with
\* the lines in gap between two consecutive Entries
DayLines(day, gap) ==
    << <<"#", " ", DateText(day.date)>>, <<>> >>
        \o flatten([i \in 1..Len(day.entries) |->
               (IF i = 1 THEN <<>> ELSE gap) \o split(day.entries[i].content, NL)])

\* the lines of a Log: its Days with a blank line between two of them
LogLines(ds, gap) ==
    flatten([d \in 1..Len(ds) |->
        (IF d = 1 THEN <<>> ELSE << <<>> >>) \o DayLines(ds[d], gap)])

\* C6 as stated: the Entries of a Day are separated by an empty line.
RenderFormatBlankLine ==
    pc = "rendered" =>
        rendered = text_of_lines(LogLines(days, << <<>> >>)) \o <<NL>>

\* C6: the rendered text is the Days joined by one blank line and ended by a
\* newline, each Day its header, a blank line and its Entries' contents, each
\* Entry starting on the line after the previous one (no empty line between).
RenderFormat ==
    pc = "rendered" =>
        rendered = text_of_lines(LogLines(days, <<>>)) \o <<NL>>

\* a rendered Day of two Entries
RenderFormatWitness ==
    /\ pc = "rendered"
    /\ \E d \in 1..Len(days) : Len(days[d].entries) >= 2

-----------------------------------------------------------------------------
(* Merging. *)

DatesOf(log) == {log.days[i].date : i \in 1..Len(log.days)}

\* the Entries a Log holds for a date, in the order of the Log
RECURSIVE EntriesFrom(_, _, _)
EntriesFrom(log, d, i) ==
    IF i > Len(log.days) THEN <<>>
    ELSE (IF log.days[i].date = d THEN log.days[i].entries ELSE <<>>)
             \o EntriesFrom(log, d, i + 1)

EntriesOn(log, d) == EntriesFrom(log, d, 1)

\* no date occurs twice
NoRepeatedDate(log) ==
    \A i, j \in 1..Len(log.days) : log.days[i].date = log.days[j].date => i = j

Ascending(log) ==
    \A i, j \in 1..Len(log.days) : i < j => log.days[i].date < log.days[j].date

\* m has one Day for each date of p or n, in ascending order of dates, with p's
\* Entries of the date followed by n's
IsMergeOf(m, p, n) ==
    /\ DatesOf(m) = DatesOf(p) \cup DatesOf(n)
    /\ Ascending(m)
    /\ \A i \in 1..Len(m.days) :
           m.days[i].entries = EntriesOn(p, m.days[i].date) \o EntriesOn(n, m.days[i].date)

MergeRan == pc \in {"merged", "identity", "left", "right"}

\* C7 as stated: for all Logs previous and new, with repeated dates too.
MergeContractAllLogs ==
    MergeRan => IsMergeOf(merged, previous, new)

\* C7: when no date occurs twice in previous and none twice in new, the
\* result has exactly one Day per date of either input, in ascending order of
\* dates, a date of one input only keeps that Day, and a date of both has
\* previous' Entries followed by new's.
MergeContract ==
    (MergeRan /\ NoRepeatedDate(previous) /\ NoRepeatedDate(new)) =>
        IsMergeOf(merged, previous, new)

\* a merge of two Logs that share a date, each with a date of its own, the
\* first of them not in ascending order
MergeContractWitness ==
    /\ pc = "merged"
    /\ NoRepeatedDate(previous) /\ NoRepeatedDate(new)
    /\ DatesOf(previous) \cap DatesOf(new) # {}
    /\ Len(previous.days) = 2 /\ ~Ascending(previous)
    /\ DatesOf(previous) # DatesOf(new)

MergeEmptyRan == pc \in {"identity", "left", "right"}

\* C8 as stated: merging the empty Log into any Log returns that Log.
MergeIdentityAllLogs ==
    MergeEmptyRan => identity = previous

\* C8: merging the empty Log into a Log whose Days are in strictly ascending
\* order of dates returns that Log, with the same Days in the same order.
MergeIdentity ==
    (MergeEmptyRan /\ Ascending(previous)) => identity = previous

MergeIdentityWitness ==
    /\ pc = "identity"
    /\ Len(previous.days) = 2
    /\ Ascending(previous)

\* the Entries of every date are a's, then b's, then c's
InOrderOfLogs(m, a, b, c) ==
    /\ DatesOf(m) = DatesOf(a) \cup DatesOf(b) \cup DatesOf(c)
    /\ \A d \in DatesOf(m) :
           EntriesOn(m, d) = EntriesOn(a, d) \o EntriesOn(b, d) \o EntriesOn(c, d)

\* C9 as stated: for all Logs that parsing can produce.
MergeAssociativeAllLogs ==
    pc = "right" =>
        (left = right /\ InOrderOfLogs(left, previous, new, third))

\* C9: for Logs in none of which a date occurs twice, merging left to right
\* and right to left give the same Log, and the Entries of each date are the
\* first Log's, then the second's, then the third's.
MergeAssociative ==
    (pc = "right" /\ NoRepeatedDate(previous) /\ NoRepeatedDate(new)
        /\ NoRepeatedDate(third)) =>
        (left = right /\ InOrderOfLogs(left, previous, new, third) /\ Ascending(left))

\* three Logs that share a date, one of them not in ascending order
MergeAssociativeWitness ==
    /\ pc = "right"
    /\ NoRepeatedDate(previous) /\ NoRepeatedDate(new) /\ NoRepeatedDate(third)
    /\ DatesOf(previous) \cap DatesOf(new) \cap DatesOf(third) # {}
    /\ Len(new.days) = 2 /\ ~Ascending(new)
    /\ Len(left.days) = 2

-----------------------------------------------------------------------------
(* The aggregate Log. *)

\* the Log of the k-th file read
FileLog(k) == parse_log_file_content(files[paths[k]]).log

\* the Entries the files hold for a date, file after file
RECURSIVE FileEntriesFrom(_, _)
FileEntriesFrom(d, k) ==
    IF k > Len(paths) THEN <<>>
    ELSE EntriesOn(FileLog(k), d) \o FileEntriesFrom(d, k + 1)

\* the merge of the Logs of the files k.. into log, left to right
RECURSIVE MergeFilesFrom(_, _)
MergeFilesFrom(log, k) ==
    IF k > Len(paths) THEN log
    ELSE MergeFilesFrom(merge_logs(log, FileLog(k)), k + 1)

\* C10: read_logs returns the left-to-right merge of the Logs of the files
\* taken in the order of their names: at most one Day per date, Days in
\* ascending order of dates, and for a date of two files the Entries of the
\* file read first followed by those of the file read later.
AggregateIsMerged ==
    pc = "read_done" =>
        /\ paths = sorted_paths({name \in DOMAIN files : glob_matches(name)})
        /\ \A j, k \in 1..Len(paths) : j < k => path_less(paths[j], paths[k])
        /\ [days |-> read_days] = MergeFilesFrom(empty_log, 1)
        /\ Ascending([days |-> read_days])
        /\ \A i \in 1..Len(read_days) :
               read_days[i].entries = FileEntriesFrom(read_days[i].date, 1)

-----------------------------------------------------------------------------
(* The tokenizer. *)

\* the physical lines of the text that was tokenized
PhysicalLines == split(content, NL)

\* the line after each tab is replaced by two spaces
TabExpanded(line) == replace(line, TAB, TWO_SPACES)

\* the line with its first tab written as two spaces
RECURSIVE FirstTabAsSpaces(_)
FirstTabAsSpaces(line) ==
    IF line = <<>> THEN <<>>
    ELSE IF Head(line) = TAB THEN TWO_SPACES \o Tail(line)
    ELSE <<Head(line)>> \o FirstTabAsSpaces(Tail(line))

\* C17: the Token of every physical line, a line of spaces and tabs only
\* included, has for indentation the number of leading whitespace characters
\* of the tab-expanded line and for content the rest of that line; a line is
\* Empty only when it has no character; a line with a tab gives the Token of
\* the line written with two spaces.
TokenOfEveryLine ==
    pc # "start" =>
        /\ Len(tokens) = Len(PhysicalLines)
        /\ \A i \in 1..Len(tokens) :
               LET line == TabExpanded(PhysicalLines[i])
                   n == leading_whitespace(line)
               IN /\ tokens[i].line_number = i - 1
                  /\ tokens[i].indentation = n
                  /\ tokens[i].content = SubSeq(line, n + 1, Len(line))
                  /\ into_line(tokens[i]).kind = "Empty" <=> PhysicalLines[i] = <<>>
                  /\ tokens[i] = tokenize_line(FirstTabAsSpaces(PhysicalLines[i]), i - 1)

-----------------------------------------------------------------------------
(* The per-person projection. *)

\* the Entries of es that mention person p
Mentioning(es, p) ==
    LET mentions(entry) == p \in entry.related
    IN SelectSeq(es, mentions)

\* the Entries of the Days i.. of date d that mention p, as they are traversed
RECURSIVE MentionsFrom(_, _, _, _)
MentionsFrom(log, p, d, i) ==
    IF i > Len(log.days) THEN <<>>
    ELSE (IF log.days[i].date = d THEN Mentioning(log.days[i].entries, p) ELSE <<>>)
             \o MentionsFrom(log, p, d, i + 1)

\* the dates on which an Entry mentions p
MentionDates(log, p) ==
    {log.days[i].date : i \in {k \in 1..Len(log.days) :
                                   Mentioning(log.days[k].entries, p) # <<>>}}

\* the dates of S in ascending order
InAscendingOrder(S) ==
    [k \in 1..Cardinality(S) |->
        CHOOSE d \in S : Cardinality({e \in S : e < d}) = k - 1]

\* the Log of p: a Day for each date of a mention, in ascending order
ProjectionOf(log, p) ==
    LET ds == InAscendingOrder(MentionDates(log, p))
    IN [days |-> [k \in 1..Len(ds) |->
                     [date |-> ds[k], entries |-> MentionsFrom(log, p, ds[k], 1)]]]

\* C11: split_log_per_person maps every person who is not ignored and is in
\* the related set of an Entry to the Log with one Day for each date of a
\* mention, Days ascending, each Day holding the Entries of its date that
\* mention the person, in the order of the traversal; a person in no related
\* set has no key.
PerPersonProjection ==
    pc = "split_done" =>
        \A p \in PersonNames :
            /\ MentionDates(aggregate, p) = {} => p \notin DOMAIN per_person
            /\ MentionDates(aggregate, p) # {} /\ p \notin should_ignore =>
                   /\ p \in DOMAIN per_person
                   /\ per_person[p] = Some(ProjectionOf(aggregate, p))

\* an aggregate Log with a repeated date, not in order, projected for a
\* person who has three Entries on one date, while another has no key
PerPersonProjectionWitness ==
    /\ pc = "split_done"
    /\ ~NoRepeatedDate(aggregate) /\ ~Ascending(aggregate)
    /\ should_ignore = {}
    /\ <<"a">> \in DOMAIN per_person /\ <<"b">> \notin DOMAIN per_person
    /\ Len(per_person[<<"a">>].log.days) = 2
    /\ Len(per_person[<<"a">>].log.days[1].entries) = 2

\* p is mentioned by an Entry that the traversal has gone through
Traversed(p) ==
    \E i \in 1..Len(aggregate.days) : \E j \in 1..Len(aggregate.days[i].entries) :
        /\ p \in aggregate.days[i].entries[j].related
        /\ \/ pc = "split_done"
           \/ i < day_idx
           \/ i = day_idx /\ j < entry_idx
           \/ i = day_idx /\ j = entry_idx /\ p \in visited

\* C12: at every point of the traversal of split_log_per_person and in its
\* result, a person of the ignore set is never mapped to a Log, and is
\* mapped to the deletion marker from the first mention gone through on.
IgnorePrecedence ==
    \A p \in should_ignore :
        /\ p \in DOMAIN per_person => per_person[p] = None
        /\ Traversed(p) => p \in DOMAIN per_person /\ per_person[p] = None

\* an ignored person mentioned by three Entries, before and after the
\* Entries of a person who is not ignored
IgnorePrecedenceWitness ==
    /\ pc = "split_done"
    /\ should_ignore = {<<"a">>}
    /\ Len(aggregate.days) = 2
    /\ aggregate.days[1].entries = <<EntryAB, EntryC>>
    /\ aggregate.days[2].entries = <<EntryB, EntryA>>
    /\ per_person[<<"a">>] = None
    /\ per_person[<<"b">>].some /\ Len(per_person[<<"b">>].log.days) = 2

-----------------------------------------------------------------------------
(* The last interactions. *)

\* the dates of the Days with an Entry that has p in its main set
MainDates(log, p) ==
    {log.days[i].date : i \in {k \in 1..Len(log.days) :
        \E j \in 1..Len(log.days[k].entries) : p \in log.days[k].entries[j].main}}

\* C13: get_last_interactions gives one LastInteraction for each person in
\* the main set of an Entry, with the latest date of the Days that hold such
\* an Entry and no days_beyond_reachout_threshold, and none for a person who
\* is in related sets only, whatever the order of the Days.
InteractionRecency ==
    pc = "interactions_done" =>
        /\ \A p \in PersonNames :
               LET found == {i \in 1..Len(interactions) : interactions[i].person = p}
               IN IF MainDates(aggregate, p) = {} THEN found = {}
                  ELSE /\ Cardinality(found) = 1
                       /\ \A i \in found :
                              /\ interactions[i].last = Max(MainDates(aggregate, p))
                              /\ interactions[i].days_beyond_reachout_threshold = NoDays
        /\ \A i \in 1..Len(interactions) : interactions[i].person \in PersonNames

\* a Log whose Days go from the later date to the earlier one and back, with
\* a in main sets on both dates and b in a related set only
InteractionRecencyWitness ==
    /\ pc = "interactions_done"
    /\ Len(aggregate.days) = 3
    /\ aggregate.days[1] = [date |-> 2, entries |-> <<EntryAB, EntryC>>]
    /\ aggregate.days[2] = [date |-> 1, entries |-> <<EntryAB, EntryC>>]
    /\ aggregate.days[3].date = 1
    /\ MainDates(aggregate, <<"b">>) = {}
    /\ interactions = <<LastInteraction(<<"a">>, 2, NoDays)>>

-----------------------------------------------------------------------------
(* The reminders. *)

\* the days of a unit of duration
UnitDays(unit) ==
    CASE unit \in {<<"d", "a", "y">>, <<"d", "a", "y", "s">>} -> 1
      [] unit \in {<<"w", "e", "e", "k">>, <<"w", "e", "e", "k", "s">>} -> 7
      [] unit \in {<<"m", "o", "n", "t", "h">>, <<"m", "o", "n", "t", "h", "s">>} -> 30
      [] OTHER -> 0

\* the text has an integer amount, and then a unit of duration
HasAmount(text) ==
    LET parts == split_whitespace(text)
    IN Len(parts) >= 1 /\ parse_i64(parts[1]).ok

HasUnit(text) ==
    LET parts == split_whitespace(text)
    IN Len(parts) >= 2 /\ UnitDays(parts[2]) # 0

\* the days of a duration text that has an amount and a unit
DurationDays(text) ==
    LET parts == split_whitespace(text)
    IN parse_i64(parts[1]).value * UnitDays(parts[2])

\* the Person of the configuration done last has a duration
Configured ==
    /\ config_person.remind_after.some
    /\ HasAmount(config_person.remind_after.text)
    /\ HasUnit(config_person.remind_after.text)

\* the days beyond the threshold last + N on the date now
DaysBeyond(last, N, now) ==
    IF now > last + N THEN SomeDays(now - (last + N)) ELSE NoDays

\* C14: for the person whose duration of N days (1 per day, 7 per week, 30
\* per month) was configured last, days_beyond_reachout_threshold is
\* today - (last + N) when today is after last + N and is unset when today
\* is on or before last + N; it is 10 for last = 2000-01-01, "3 months" and
\* today = 2000-04-10.
ReminderThreshold ==
    pc = "reachouts_done" =>
        /\ reachouts.kind = "Ok"
        /\ Len(reachouts.with_reminder) = Len(interactions)
        /\ \A i \in 1..Len(interactions) :
               LET p == interactions[i].person
                   last == interactions[i].last
                   result == reachouts.with_reminder[i]
               IN /\ result.person = p /\ result.last = last
                  /\ p \notin DOMAIN to_be_reminded => result = interactions[i]
                  /\ p \in DOMAIN to_be_reminded =>
                         result.days_beyond_reachout_threshold =
                             DaysBeyond(last, to_be_reminded[p], today)
                  /\ Configured /\ p = config_person.name =>
                         /\ result.days_beyond_reachout_threshold =
                                DaysBeyond(last, DurationDays(config_person.remind_after.text),
                                           today)
                         /\ /\ last = DayOf2000(1, 1)
                            /\ config_person.remind_after.text =
                                   <<"3", " ", "m", "o", "n", "t", "h", "s">>
                            /\ today = DayOf2000(4, 10)
                            => result.days_beyond_reachout_threshold = SomeDays(10)

\* last = 2000-01-01, "3 months" and today = 2000-04-10
ReminderThresholdWitness ==
    /\ pc = "reachouts_done"
    /\ config_person =
           Person(<<"a">>, SomeDuration(<<"3", " ", "m", "o", "n", "t", "h", "s">>))
    /\ today = DayOf2000(4, 10)
    /\ Len(interactions) = 2
    /\ interactions[2] = LastInteraction(<<"a">>, DayOf2000(1, 1), NoDays)
    /\ reachouts.with_reminder[2].days_beyond_reachout_threshold = SomeDays(10)

\* C15: whenever the duration text of a Person of the configuration has no
\* integer amount or no unit among day, days, week, weeks, month and months,
\* whatever its number of tokens, identify_reachouts returns a parse error:
\* it does not crash and it records no duration for the Person.
ParseErrorReturned ==
    /\ config_person.remind_after.some
    /\ \/ ~HasAmount(config_person.remind_after.text)
       \/ ~HasUnit(config_person.remind_after.text)
    => /\ pc = "reachouts_err"
       /\ reachouts.kind = "Err"

-----------------------------------------------------------------------------
(* The write phase. *)

\* the persons whose turn of the loop is done
Attempted == {person \in DOMAIN per_person : person \notin pending}

\* the turns of the loop that were for the file of person
TurnsOf(person) ==
    {i \in 1..Len(written) : written[i].path = infer_log_path(person)}

\* the file of person after a turn of the loop that returned log_written
FileAfter(person, log_written) ==
    LET path == infer_log_path(person)
        before == per_person_dir[path]
        after == per_person_dir'[path]
    IN CASE log_written.kind = "Written" ->
                /\ per_person[person].some
                /\ after = File(display_log(per_person[person].log))
         [] log_written.kind = "FailedToWrite" ->
                /\ per_person[person].some
                /\ after \in {before, File(<<>>)}
         [] log_written.kind = "Deleted" ->
                ~per_person[person].some /\ before.exists /\ after = Absent
         [] log_written.kind = "FailedToDelete" ->
                ~per_person[person].some /\ before.exists /\ after = before
         [] log_written.kind = "NothingToDelete" ->
                ~per_person[person].some /\ before = Absent /\ after = Absent

\* a turn of the loop: one person who was not attempted yet is attempted, the
\* file <PersonName>.md is written, deleted or left as its LogWritten says,
\* no other file changes, and the loop goes on whatever the LogWritten
TurnOfLoop ==
    \E person \in pending :
        /\ pending' = pending \ {person}
        /\ written' = Append(written, written'[Len(written')])
        /\ written'[Len(written')].path = infer_log_path(person)
        /\ FileAfter(person, written'[Len(written')])
        /\ \A path \in PersonPaths :
               path # infer_log_path(person) => per_person_dir'[path] = per_person_dir[path]
        /\ pc' = "write"

\* the loop ends when every person was attempted, and changes no file
EndOfLoop ==
    pending = {} /\ pc' = "write_done" /\ UNCHANGED <<per_person_dir, pending, written>>

\* C16: in the write phase every person of the projection is attempted
\* exactly once, whatever write or delete fails for the others; a person
\* mapped to a Log has <PersonName>.md written with the rendered Log, a
\* person mapped to the deletion marker has the existing file deleted and
\* gets no file when there is none, and no other file changes.
WritePhase ==
    /\ [][pc = "write" => (TurnOfLoop \/ EndOfLoop) /\ UNCHANGED per_person]_vars
    /\ [](pc \in {"write", "write_done"} =>
             /\ pending \subseteq DOMAIN per_person
             /\ Len(written) = Cardinality(Attempted)
             /\ \A person \in DOMAIN per_person :
                    Cardinality(TurnsOf(person)) = IF person \in pending THEN 0 ELSE 1
             /\ pc = "write_done" => pending = {})

\* both persons are attempted: the write of one fails and leaves an empty
\* file, then the stale file of the ignored one is deleted
WritePhaseWitness ==
    /\ pc = "write_done"
    /\ Len(written) = 2
    /\ written[1] = LogWritten("FailedToWrite", infer_log_path(<<"a">>))
    /\ written[2] = LogWritten("Deleted", infer_log_path(<<"b">>))
    /\ per_person_dir[infer_log_path(<<"a">>)] = File(<<>>)
    /\ per_person_dir[infer_log_path(<<"b">>)] = Absent
    /\ per_person_dir[infer_log_path(OtherPerson)] = StaleFile

=============================================================================
